---- MODULE Spec2Model ----
(***************************************************************************)
(* Battery cell monitor (Cell_Performance.py): the session registry        *)
(* st.session_state.cells_data / cell_counter and the operations of        *)
(* StreamlitBatteryCellMonitor and of the button handlers of main().       *)
(*                                                                         *)
(* Numbers are fixed point: volts in tenths, amperes and capacity in       *)
(* hundredths, temperature in tenths of a degree.  A product volts*amperes *)
(* is therefore in thousandths and round(.., 2) brings it to hundredths.   *)
(***************************************************************************)
EXTENDS Integers, Sequences, FiniteSets

VARIABLES
    cells_data,    \* st.session_state.cells_data: insertion-ordered dict, as a sequence of [key, val]
    cell_counter,  \* st.session_state.cell_counter
    last,          \* the last call and what it returned: [op, id, ok]
    issued,        \* history: every id a successful add_cell returned in this session
    epoch,         \* history: the ids returned since the last Clear All (or session start)
    cleared,       \* history: a Clear All has happened in this session
    updated        \* history: live cells that a successful update_cell_current has targeted

vars == <<cells_data, cell_counter, last, issued, epoch, cleared, updated>>

----------------------------------------------------------------------------
(* Bounds of the model *)

\* successful adds per id sequence (between two Clear All) in Spec, SpecNoClear
\* and SpecAnyArg
MaxCounter == 3
\* successful adds per id sequence in SpecCap, which fills the registry
MaxCounterCap == 9
\* fields of the update form the operator edits before submitting
MaxEdits == 1

\* the chemistries the operator picks among (a subset of valid_cell_types)
Chemistries == {"lfp", "li-ion"}
\* the chemistry of every cell in the specifications that keep to one
OneChemistry == {"lfp"}
\* outcomes of round(random.uniform(25, 40), 1), in tenths
Temps == {250, 400}
\* the draw in the specifications that keep to one temperature
OneTemp == {250}
\* readings of datetime.now(), formatted to the second
Times == {"12:00:00"}
\* values of the number_input of the update form, within [0, 10] A, in hundredths
FormCurrents == {0, 151}
\* outcomes of round(random.uniform(0, 5), 2), in hundredths
RandomCurrents == {0, 151}
\* arguments a direct caller of update_cell_current may pass, in hundredths
AnyCurrents == {-1, 0, 151}

----------------------------------------------------------------------------
(* Program constants *)

MaxCells == 8
DefaultVoltage == 36
valid_cell_types == {"lfp", "li-ion", "nicad", "nimh", "lead-acid"}
voltage_map == [t \in valid_cell_types |->
                  CASE t = "lfp"       -> 32
                    [] t = "li-ion"    -> 36
                    [] t = "nicad"     -> 12
                    [] t = "nimh"      -> 12
                    [] t = "lead-acid" -> 20]

\* self.voltage_map.get(cell_type, 3.6)
VoltageOf(cell_type) ==
    IF cell_type \in DOMAIN voltage_map THEN voltage_map[cell_type] ELSE DefaultVoltage

\* f"cell_{st.session_state.cell_counter}_{cell_type}"
CellId(n, cell_type) == <<"cell", n, cell_type>>

NoId == <<>>

\* round(x, 2) of a value given in thousandths, result in hundredths (ties to even)
Round2(x) ==
    LET q == x \div 10
        r == x % 10
    IN  IF r < 5 THEN q
        ELSE IF r > 5 THEN q + 1
        ELSE IF q % 2 = 0 THEN q ELSE q + 1

----------------------------------------------------------------------------
(* The insertion-ordered dict *)

Keys(d) == {d[i].key : i \in 1..Len(d)}

KeySeq(d) == [i \in 1..Len(d) |-> d[i].key]

IndexOf(d, k) == CHOOSE i \in 1..Len(d) : d[i].key = k

Get(d, k) == d[IndexOf(d, k)].val

\* mutant of DictSet: a new key goes first
DictSetFront(d, k, v) ==
    IF k \in Keys(d)
    THEN [d EXCEPT ![IndexOf(d, k)] = [key |-> k, val |-> v]]
    ELSE <<[key |-> k, val |-> v]>> \o d

\* d[k] = v: a present key keeps its position, a new key goes last
DictSet(d, k, v) ==
    IF k \in Keys(d)
    THEN [d EXCEPT ![IndexOf(d, k)] = [key |-> k, val |-> v]]
    ELSE Append(d, [key |-> k, val |-> v])

\* del d[k]
DictDel(d, k) == SelectSeq(d, LAMBDA e : e.key # k)

----------------------------------------------------------------------------
(* The methods of StreamlitBatteryCellMonitor, as functions of the session *)
(* state s = [cells_data, cell_counter]; each gives the state after the    *)
(* call and what the call returned.                                        *)

Session == [cells_data |-> cells_data, cell_counter |-> cell_counter]

\* mutant of AtCapacity: > where the code has >=
AtCapacityOffByOne(d) == Len(d) > MaxCells

\* len(st.session_state.cells_data) >= 8
AtCapacity(d) == Len(d) >= MaxCells

\* the record add_cell stores
NewCell(cell_type, temp, now) ==
    [type |-> cell_type, voltage |-> VoltageOf(cell_type), current |-> 0,
     temp |-> temp, capacity |-> 0, status |-> "Ready", created |-> now]

\* mutant of add_cell: the counter is incremented before the capacity check
add_cell_counts_first(s, cell_type, temp, now) ==
    LET n == s.cell_counter + 1
        cell_id == CellId(n, cell_type)
    IN  IF AtCapacity(s.cells_data)
        THEN [s |-> [s EXCEPT !.cell_counter = n], ok |-> FALSE, id |-> NoId]
        ELSE [s  |-> [cells_data   |-> DictSet(s.cells_data, cell_id,
                                               NewCell(cell_type, temp, now)),
                      cell_counter |-> n],
              ok |-> TRUE, id |-> cell_id]

\* mutant of add_cell: the id is numbered by the size of the registry
add_cell_by_len(s, cell_type, temp, now) ==
    IF AtCapacity(s.cells_data)
    THEN [s |-> s, ok |-> FALSE, id |-> NoId]
    ELSE LET cell_id == CellId(Len(s.cells_data) + 1, cell_type)
         IN  [s  |-> [cells_data   |-> DictSet(s.cells_data, cell_id,
                                               NewCell(cell_type, temp, now)),
                      cell_counter |-> s.cell_counter + 1],
              ok |-> TRUE, id |-> cell_id]

add_cell(s, cell_type, temp, now) ==
    IF AtCapacity(s.cells_data)
    THEN [s |-> s, ok |-> FALSE, id |-> NoId]
    ELSE LET n == s.cell_counter + 1
             cell_id == CellId(n, cell_type)
         IN  [s  |-> [cells_data   |-> DictSet(s.cells_data, cell_id,
                                               NewCell(cell_type, temp, now)),
                      cell_counter |-> n],
              ok |-> TRUE, id |-> cell_id]

\* mutant of remove_cell: the removed cell's sequence number is reclaimed
remove_cell_reclaims(s, cell_id) ==
    IF cell_id \in Keys(s.cells_data)
    THEN [s |-> [cells_data   |-> DictDel(s.cells_data, cell_id),
                 cell_counter |-> s.cell_counter - 1],
          ok |-> TRUE]
    ELSE [s |-> s, ok |-> FALSE]

remove_cell(s, cell_id) ==
    IF cell_id \in Keys(s.cells_data)
    THEN [s |-> [s EXCEPT !.cells_data = DictDel(@, cell_id)], ok |-> TRUE]
    ELSE [s |-> s, ok |-> FALSE]

\* mutant of UpdatedCell: the capacity is truncated, not rounded
UpdatedCellTruncates(cell, current) ==
    [cell EXCEPT !.current  = current,
                 !.capacity = (cell.voltage * current) \div 10,
                 !.status   = IF current > 0 THEN "Active" ELSE "Standby"]

\* mutant of UpdatedCell: >= where the code has >
UpdatedCellActiveAtZero(cell, current) ==
    [cell EXCEPT !.current  = current,
                 !.capacity = Round2(cell.voltage * current),
                 !.status   = IF current >= 0 THEN "Active" ELSE "Standby"]

\* mutant of UpdatedCell: the voltage is looked up again, by a key the map lacks
UpdatedCellLooksUpVoltage(cell, current) ==
    [cell EXCEPT !.voltage  = DefaultVoltage,
                 !.current  = current,
                 !.capacity = Round2(DefaultVoltage * current),
                 !.status   = IF current > 0 THEN "Active" ELSE "Standby"]

\* the three assignments of update_cell_current to the cell's own record
UpdatedCell(cell, current) ==
    [cell EXCEPT !.current  = current,
                 !.capacity = Round2(cell.voltage * current),
                 !.status   = IF current > 0 THEN "Active" ELSE "Standby"]

update_cell_current(s, cell_id, current) ==
    IF cell_id \in Keys(s.cells_data)
    THEN [s |-> [s EXCEPT !.cells_data =
                    [@ EXCEPT ![IndexOf(@, cell_id)].val = UpdatedCell(@, current)]],
          ok |-> TRUE]
    ELSE [s |-> s, ok |-> FALSE]

\* get_cells_dataframe: one row per item, "Cell ID" first, in items() order
get_cells_dataframe(d) ==
    [i \in 1..Len(d) |->
        [CellID |-> d[i].key, type |-> d[i].val.type, voltage |-> d[i].val.voltage,
         current |-> d[i].val.current, temp |-> d[i].val.temp,
         capacity |-> d[i].val.capacity, status |-> d[i].val.status,
         created |-> d[i].val.created]]

\* export_data('json'): json.dumps writes the items of the dict in order
export_json(d) == [i \in 1..Len(d) |-> <<d[i].key, d[i].val>>]

\* export_data('csv'): the rows of the dataframe in order
export_csv(d) ==
    LET df == get_cells_dataframe(d)
    IN  [i \in 1..Len(df) |->
            <<df[i].CellID, df[i].type, df[i].voltage, df[i].current, df[i].temp,
              df[i].capacity, df[i].status, df[i].created>>]

----------------------------------------------------------------------------
(* Loops of main() *)

\* for cell_id, current in currents.items(): monitor.update_cell_current(cell_id, current)
\* where currents is keyed by the cells in ks[1..n]
RECURSIVE UpdateEach(_, _, _, _)
UpdateEach(s, ks, currents, n) ==
    IF n = 0 THEN s
    ELSE update_cell_current(UpdateEach(s, ks, currents, n - 1), ks[n], currents[ks[n]]).s

\* for _ in range(n): success, _ = monitor.add_cell(random.choice(..)); if not success: break
\* draws[i] is the i-th [type, temp, now]; gives [s, ids]
RECURSIVE AddMany(_, _, _)
AddMany(s, draws, n) ==
    IF n = 0 THEN [s |-> s, ids |-> {}, broke |-> FALSE]
    ELSE LET before == AddMany(s, draws, n - 1)
             r == add_cell(before.s, draws[n].type, draws[n].temp, draws[n].now)
         IN  IF before.broke \/ ~r.ok
             THEN [before EXCEPT !.broke = TRUE]
             ELSE [s |-> r.s, ids |-> before.ids \cup {r.id}, broke |-> FALSE]

----------------------------------------------------------------------------
(* Initial state: a fresh session (__init__) *)

Init ==
    /\ cells_data = <<>>
    /\ cell_counter = 0
    /\ last = [op |-> "init", id |-> NoId, ok |-> TRUE]
    /\ issued = {}
    /\ epoch = {}
    /\ cleared = FALSE
    /\ updated = {}

Install(s) ==
    /\ cells_data' = s.cells_data
    /\ cell_counter' = s.cell_counter

----------------------------------------------------------------------------
(* Operations *)

\* "Add Cell" / "Add LFP Cell" / "Add Li-ion Cell": monitor.add_cell(cell_type)
AddCell(cell_type, temp, now) ==
    LET r == add_cell(Session, cell_type, temp, now)
    IN  /\ Install(r.s)
        /\ last' = [op |-> "addCell", id |-> r.id, ok |-> r.ok]
        /\ issued' = IF r.ok THEN issued \cup {r.id} ELSE issued
        /\ epoch' = IF r.ok THEN epoch \cup {r.id} ELSE epoch
        /\ UNCHANGED <<cleared, updated>>

\* "Remove Cell": monitor.remove_cell(cell_id)
RemoveCell(cell_id) ==
    LET r == remove_cell(Session, cell_id)
    IN  /\ Install(r.s)
        /\ last' = [op |-> "removeCell", id |-> cell_id, ok |-> r.ok]
        /\ updated' = updated \ {cell_id}
        /\ UNCHANGED <<issued, epoch, cleared>>

\* monitor.update_cell_current(cell_id, current)
UpdateCurrent(cell_id, current) ==
    LET r == update_cell_current(Session, cell_id, current)
    IN  /\ Install(r.s)
        /\ last' = [op |-> "updateCurrent", id |-> cell_id, ok |-> r.ok]
        /\ updated' = IF r.ok THEN updated \cup {cell_id} ELSE updated
        /\ UNCHANGED <<issued, epoch, cleared>>

\* "Update All Currents": the form holds one number_input per row of the
\* dataframe, preset to the cell's current; edits replaces some of them
UpdateAllCurrents(edits) ==
    /\ cells_data # <<>>
    /\ LET ks == KeySeq(cells_data)
           updated_currents == [k \in Keys(cells_data) |->
                                  IF k \in DOMAIN edits THEN edits[k]
                                  ELSE Get(cells_data, k).current]
       IN  /\ Install(UpdateEach(Session, ks, updated_currents, Len(ks)))
           /\ updated' = updated \cup Keys(cells_data)
    /\ last' = [op |-> "updateAll", id |-> NoId, ok |-> TRUE]
    /\ UNCHANGED <<issued, epoch, cleared>>

\* "Random Data": every cell gets its own draw
RandomizeAllCurrents(draw) ==
    /\ LET ks == KeySeq(cells_data)
       IN  Install(UpdateEach(Session, ks, draw, Len(ks)))
    /\ updated' = updated \cup Keys(cells_data)
    /\ last' = [op |-> "randomizeAll", id |-> NoId, ok |-> TRUE]
    /\ UNCHANGED <<issued, epoch, cleared>>

\* mutant of ClearAll: the counter is not reset
ClearAllKeepsCounter ==
    /\ cells_data' = <<>>
    /\ cell_counter' = cell_counter
    /\ last' = [op |-> "clearAll", id |-> NoId, ok |-> TRUE]
    /\ epoch' = {}
    /\ cleared' = TRUE
    /\ updated' = {}
    /\ UNCHANGED issued

\* "Clear All"
ClearAll ==
    /\ cells_data' = <<>>
    /\ cell_counter' = 0
    /\ last' = [op |-> "clearAll", id |-> NoId, ok |-> TRUE]
    /\ epoch' = {}
    /\ cleared' = TRUE
    /\ updated' = {}
    /\ UNCHANGED issued

\* "Add 3 Random Cells", offered while the registry is empty
QuickAddMany(draws) ==
    /\ cells_data = <<>>
    /\ LET r == AddMany(Session, draws, Len(draws))
       IN  /\ Install(r.s)
           /\ issued' = issued \cup r.ids
           /\ epoch' = epoch \cup r.ids
           /\ last' = [op |-> "quickAddMany", id |-> NoId, ok |-> ~r.broke]
    /\ UNCHANGED <<cleared, updated>>

----------------------------------------------------------------------------
(* Inputs *)

QuickCount == 3

Draws == [type : OneChemistry, temp : Temps, now : Times]

\* an id no add_cell has returned
UnknownId == CellId(0, "lfp")

\* every id a call may name: the live cells, the cells removed since the last
\* Clear All, and an id that never existed
CallIds == Keys(cells_data) \cup epoch \cup {UnknownId}

\* the edits of at most MaxEdits fields of the form
EditsOf(ks, values) ==
    UNION {[S -> values] : S \in {T \in SUBSET ks : Cardinality(T) <= MaxEdits}}

\* a successful add would stay within the bound on the id sequence
WithinBound(bound) == AtCapacity(cells_data) \/ cell_counter < bound

Next ==
    \/ \E t \in OneChemistry, temp \in Temps, now \in Times :
          WithinBound(MaxCounter) /\ AddCell(t, temp, now)
    \/ \E id \in CallIds : RemoveCell(id)
    \/ \E id \in CallIds, c \in FormCurrents : UpdateCurrent(id, c)
    \/ \E edits \in EditsOf(Keys(cells_data), FormCurrents) : UpdateAllCurrents(edits)
    \/ \E draw \in [Keys(cells_data) -> RandomCurrents] : RandomizeAllCurrents(draw)
    \/ ClearAll
    \/ \E draws \in [1..QuickCount -> Draws] :
          cell_counter + QuickCount <= MaxCounter /\ QuickAddMany(draws)

\* The session as the registry's operations drive it, every current within
\* the bounds the update form and the random draw keep; one chemistry.
Spec == Init /\ [][Next]_vars

----------------------------------------------------------------------------
(* A session without Clear All, over two chemistries.                      *)

NextNoClear ==
    \/ \E t \in Chemistries, temp \in OneTemp, now \in Times :
          WithinBound(MaxCounter) /\ AddCell(t, temp, now)
    \/ \E id \in CallIds : RemoveCell(id)
    \/ \E id \in CallIds, c \in FormCurrents : UpdateCurrent(id, c)
    \/ \E edits \in EditsOf(Keys(cells_data), FormCurrents) : UpdateAllCurrents(edits)
    \/ \E draw \in [Keys(cells_data) -> RandomCurrents] : RandomizeAllCurrents(draw)

SpecNoClear == Init /\ [][NextNoClear]_vars

----------------------------------------------------------------------------
(* The session filled to capacity: one chemistry, and the calls name the   *)
(* oldest live cell or a cell that does not exist.                         *)

OldestOrUnknown ==
    IF cells_data = <<>> THEN {UnknownId} ELSE {cells_data[1].key, UnknownId}

NextCap ==
    \/ \E t \in OneChemistry, temp \in OneTemp, now \in Times :
          WithinBound(MaxCounterCap) /\ AddCell(t, temp, now)
    \/ \E id \in OldestOrUnknown : RemoveCell(id)
    \/ \E id \in OldestOrUnknown, c \in FormCurrents : UpdateCurrent(id, c)
    \/ \E edits \in EditsOf({}, FormCurrents) : UpdateAllCurrents(edits)
    \/ \E c \in RandomCurrents : RandomizeAllCurrents([k \in Keys(cells_data) |-> c])
    \/ ClearAll
    \/ \E draws \in [1..QuickCount -> [type : OneChemistry, temp : OneTemp, now : Times]] :
          cell_counter + QuickCount <= MaxCounterCap /\ QuickAddMany(draws)

SpecCap == Init /\ [][NextCap]_vars

----------------------------------------------------------------------------
(* The registry called directly: update_cell_current takes whatever number *)
(* its caller passes.                                                      *)

NextAnyArg ==
    \/ \E t \in OneChemistry, temp \in Temps, now \in Times :
          WithinBound(MaxCounter) /\ AddCell(t, temp, now)
    \/ \E id \in CallIds : RemoveCell(id)
    \/ \E id \in CallIds, c \in AnyCurrents : UpdateCurrent(id, c)
    \/ ClearAll

SpecAnyArg == Init /\ [][NextAnyArg]_vars

----------------------------------------------------------------------------
(* Properties *)

Cells == {cells_data[i] : i \in 1..Len(cells_data)}

\* the sequence number an id carries
SeqOf(id) == id[2]

AddSucceeded == last.op = "addCell" /\ last.ok

\* C1: the registry never holds more than 8 live cells, and an addCell issued
\* while exactly 8 cells are live fails and leaves the 8 cells as they were.
C1_CapacityBound ==
    /\ [](Len(cells_data) <= MaxCells)
    /\ [][(last'.op = "addCell" /\ Len(cells_data) = MaxCells)
            => (~last'.ok /\ cells_data' = cells_data)]_vars

\* a 9th add has just failed on a full registry
C1_Witness ==
    /\ last.op = "addCell" /\ ~last.ok
    /\ Len(cells_data) = MaxCells

\* C2: without Clear All, the id a successful addCell returns differs from
\* every id returned before (removed cells included), removeCell leaves the
\* counter alone, and the live ids are pairwise distinct.
C2_IdsFreshWithoutClear ==
    /\ [](Cardinality(Keys(cells_data)) = Len(cells_data))
    /\ [][/\ AddSucceeded' => (last'.id \notin issued /\ last'.id \in Keys(cells_data'))
          /\ last'.op = "removeCell" => cell_counter' = cell_counter]_vars

\* addCell; removeCell; addCell: one live cell, two ids returned
C2_Witness ==
    /\ AddSucceeded /\ ~cleared
    /\ Len(cells_data) = 1
    /\ Cardinality(issued) = 2

\* C3: every live cell's capacity is its voltage times its current, rounded
\* to 2 decimals, and its voltage is the nominal voltage of its chemistry.
C3_CapacityConsistent ==
    \A e \in Cells :
        /\ e.val.voltage = VoltageOf(e.val.type)
        /\ e.val.capacity = Round2(e.val.voltage * e.val.current)

\* 3.2 V * 1.51 A = 4.832 -> 4.83 and 3.6 V * 1.51 A = 5.436 -> 5.44, next to a fresh cell
C3_Witness ==
    /\ \E e \in Cells : e.val.type = "lfp" /\ e.val.current = 151 /\ e.val.capacity = 483
    /\ \E e \in Cells : e.val.type = "li-ion" /\ e.val.current = 151 /\ e.val.capacity = 544
    /\ \E e \in Cells : e.val.status = "Ready" /\ e.val.capacity = 0

\* C4: with currents in [0, 10], a live cell is Ready iff no successful
\* update has targeted it (its current is then 0), Active iff updated with a
\* current > 0, Standby iff updated with current 0.
C4_StatusFollowsHistory ==
    \A e \in Cells :
        /\ e.val.current \in 0..1000
        /\ e.val.status = "Ready" <=> e.key \notin updated
        /\ e.val.status = "Ready" => e.val.current = 0
        /\ e.val.status = "Active" <=> (e.key \in updated /\ e.val.current > 0)
        /\ e.val.status = "Standby" <=> (e.key \in updated /\ e.val.current = 0)

\* a Ready, a Standby and an Active cell side by side
C4_Witness ==
    /\ \E e \in Cells : e.val.status = "Ready"
    /\ \E e \in Cells : e.val.status = "Standby"
    /\ \E e \in Cells : e.val.status = "Active"

\* C5: addCell on 8 live cells, and removeCell or updateCurrent of an id that
\* is not live, return failure; a call that returns failure leaves the cells
\* and the counter as they were.
C5_FailureChangesNothing ==
    [][/\ (last'.op = "addCell" /\ Len(cells_data) = MaxCells) => ~last'.ok
       /\ (last'.op \in {"removeCell", "updateCurrent"} /\ last'.id \notin Keys(cells_data))
             => ~last'.ok
       /\ ~last'.ok => (cells_data' = cells_data /\ cell_counter' = cell_counter)]_vars

\* a removeCell of an unknown id has just failed on a full registry
C5_Witness ==
    /\ last.op = "removeCell" /\ ~last.ok
    /\ Len(cells_data) = MaxCells
    /\ cell_counter > MaxCells

\* C6: Clear All succeeds, empties the registry and resets the counter to 0;
\* the next successful addCell gets sequence number 1 and the following ones
\* 2, 3, ...: one more than the adds since the last Clear All.
C6_ClearAllRestartsSequence ==
    [][/\ last'.op = "clearAll"
             => (last'.ok /\ cells_data' = <<>> /\ cell_counter' = 0)
       /\ AddSucceeded' => SeqOf(last'.id) = Cardinality(epoch) + 1]_vars

\* the first add after a Clear All that found the counter at 2 or more
C6_Witness ==
    /\ AddSucceeded /\ cleared
    /\ SeqOf(last.id) = 1
    /\ \E id \in issued : SeqOf(id) >= 2

\* C7 as stated: an id addCell has returned is never returned again in the
\* session.
C7_NeverReusedInSession ==
    [][AddSucceeded' => last'.id \notin issued]_vars

\* C7 amended: an id addCell has returned is never returned again before the
\* next Clear All.
C7_NeverReusedBeforeClear ==
    [][AddSucceeded' => last'.id \notin epoch]_vars

\* after a Clear All: addCell; addCell; removeCell; addCell
C7_Witness ==
    /\ AddSucceeded /\ cleared
    /\ Cardinality(epoch) = 3
    /\ Len(cells_data) = 2

\* C8 as stated: no live cell has a negative current or capacity.
C8_CurrentNonNegative ==
    \A e \in Cells : e.val.current >= 0 /\ e.val.capacity >= 0

\* C9: a cell's chemistry, voltage, temperature and creation time never
\* change while it lives; a successful updateCurrent leaves the order of the
\* cells, every other cell and the counter unchanged; a successful removeCell
\* deletes that cell only and leaves the counter unchanged.
C9_Frame ==
    [][/\ \A k \in Keys(cells_data) \cap Keys(cells_data') :
             LET a == Get(cells_data, k)
                 b == Get(cells_data', k)
             IN  /\ b.type = a.type /\ b.voltage = a.voltage
                 /\ b.temp = a.temp /\ b.created = a.created
       /\ (last'.op = "updateCurrent" /\ last'.ok) =>
             /\ KeySeq(cells_data') = KeySeq(cells_data)
             /\ cell_counter' = cell_counter
             /\ \A k \in Keys(cells_data) \ {last'.id} :
                    Get(cells_data', k) = Get(cells_data, k)
       /\ (last'.op = "removeCell" /\ last'.ok) =>
             /\ KeySeq(cells_data') = SelectSeq(KeySeq(cells_data), LAMBDA k : k # last'.id)
             /\ cell_counter' = cell_counter
             /\ \A k \in Keys(cells_data') : Get(cells_data', k) = Get(cells_data, k)]_vars

\* an update has just made the second of two cells Active, the first being
\* Active already and at another temperature
C9_Witness ==
    /\ last.op = "updateCurrent" /\ last.ok
    /\ Len(cells_data) >= 2
    /\ last.id = cells_data[2].key
    /\ cells_data[1].val.status = "Active" /\ cells_data[2].val.status = "Active"
    /\ cells_data[1].val.temp # cells_data[2].val.temp

\* C10: the dataframe and both exports list exactly the live cells, in
\* strictly increasing sequence-number order; an update moves no cell, a
\* removal keeps the others in their order, and a new cell comes last.
C10_SnapshotInInsertionOrder ==
    /\ [](LET df == get_cells_dataframe(cells_data)
              js == export_json(cells_data)
              csv == export_csv(cells_data)
          IN  /\ Len(df) = Cardinality(Keys(cells_data))
              /\ {df[i].CellID : i \in 1..Len(df)} = Keys(cells_data)
              /\ \A i, j \in 1..Len(df) :
                    i < j => SeqOf(df[i].CellID) < SeqOf(df[j].CellID)
              /\ [i \in 1..Len(js) |-> js[i][1]] = [i \in 1..Len(df) |-> df[i].CellID]
              /\ [i \in 1..Len(csv) |-> csv[i][1]] = [i \in 1..Len(df) |-> df[i].CellID])
    /\ [][LET before == get_cells_dataframe(cells_data)
              after == get_cells_dataframe(cells_data')
              ids(df) == [i \in 1..Len(df) |-> df[i].CellID]
          IN  /\ last'.op \in {"updateCurrent", "updateAll", "randomizeAll"}
                    => ids(after) = ids(before)
              /\ (last'.op = "removeCell" /\ last'.ok)
                    => ids(after) = SelectSeq(ids(before), LAMBDA k : k # last'.id)
              /\ AddSucceeded'
                    => ids(after) = Append(ids(before), last'.id)]_vars

\* the first of three cells was updated and the middle one has just been
\* removed
C10_Witness ==
    /\ Len(cells_data) = 2
    /\ SeqOf(cells_data[1].key) = 1 /\ SeqOf(cells_data[2].key) = 3
    /\ cells_data[1].val.status = "Active"
    /\ last.op = "removeCell" /\ last.ok

====
